---- MODULE Spec2Model ----
(***************************************************************************)
(* Model of the firelens task resource (agent/taskresource/firelens/       *)
(* firelens_unix.go) and of the ecscni client's namespace cleanup          *)
(* (agent/ecscni).                                                         *)
(*                                                                         *)
(* One FirelensResource instance is shared by the goroutines in Threads.   *)
(* A goroutine runs ApplyTransition step by step (waiting for the write    *)
(* lock, table lookup, the stages of Create, the stages of                 *)
(* writeConfigFile); the short accessors, which hold the lock for their    *)
(* whole body, are single actions enabled when no writer holds the lock.   *)
(* Cleanup takes no lock and so runs at any time.                          *)
(***************************************************************************)
EXTENDS Integers, Sequences, FiniteSets

\* ---------------------------------------------------------------- bounds
\* FullLen: the chunks a complete config file takes. MaxOrphans: the temp
\* files that can be left in the resource directory before TempFile fails.
\* MaxTime: the non-zero timestamps. MaxNetworks: the entries of a CNI config.
FullLen == 2
MaxOrphans == 1
MaxTime == 2
MaxNetworks == 3

\* ------------------------------------------------------- program constants
FirelensStatusNone == 0
FirelensCreated == 1
FirelensRemoved == 2

Status == {FirelensStatusNone, FirelensCreated, FirelensRemoved}
\* Two goroutines share the resource: a holder of the lock and a contender.
Threads == {1, 2}
NoThread == 0

FirelensConfigTypeFluentd == "fluentd"
FirelensConfigTypeFluentbit == "fluentbit"
ExternalConfigTypeS3 == "s3"
ExternalConfigTypeFile == "file"

\* The messages Create and ApplyTransition hand to setTerminalReason, by
\* their outermost wrapping.
ReasonTransition == "impossible to transition"
ReasonConfigType == "invalid firelens configuration type"
ReasonDirectory == "unable to initialize resource directory"
ReasonDownload == "unable to download firelens s3 config file"
ReasonGenerate == "unable to generate firelens config file"

\* A file of the resource directory: len chunks written by writer `by`;
\* Absent when the path does not exist.
Absent == [len |-> -1, by |-> "none"]
Content(n, w) == [len |-> n, by |-> w]

\* The plugins a network entry of a CNI config can name.
Plugins == {"eni", "bridge", "appmesh"}

VARIABLES
  \* FirelensResource fields
  firelensConfigType, externalConfigType, externalConfigValue,
  createdAtUnsafe, desiredStatusUnsafe, knownStatusUnsafe, appliedStatusUnsafe,
  statusToTransitions, terminalReason, terminalReasonOnce, lock,
  \* the resource directory on disk
  dirs, fluentConf, externalConf, orphans,
  \* each goroutine's position and locals
  pc, nextState, destPath, tempLinked, tempLen,
  \* the operation the last step belongs to, its argument and result
  lastOp,
  \* ecscni: the config handed to SetupNS / CleanupNS, the loop, the DEL and
  \* ADD calls issued, the error and the result returned
  networkConfigs, cniPc, cniI, delCalls, cniErr, addCalls, cniResult,
  \* the options NewFirelensResource is given, its outcome and the metadata
  \* flag parseOptions sets
  options, constructed, ecsMetadataEnabled,
  \* a second FirelensResource: its own lock and known status
  peer

resVars == <<firelensConfigType, externalConfigType, externalConfigValue,
             createdAtUnsafe, desiredStatusUnsafe, knownStatusUnsafe,
             appliedStatusUnsafe, statusToTransitions, terminalReason,
             terminalReasonOnce, lock>>
cfgVars == <<firelensConfigType, externalConfigType, externalConfigValue>>
statusVars == <<desiredStatusUnsafe, knownStatusUnsafe, appliedStatusUnsafe>>
reasonVars == <<terminalReason, terminalReasonOnce>>
fsVars == <<dirs, fluentConf, externalConf, orphans>>
tempVars == <<tempLinked, tempLen>>
thVars == <<pc, nextState, destPath>>
cniVars == <<networkConfigs, cniPc, cniI, delCalls, cniErr, addCalls, cniResult>>
optVars == <<options, constructed, ecsMetadataEnabled>>
restVars == <<resVars, fsVars, thVars, tempVars, lastOp, optVars, peer>>
vars == <<resVars, fsVars, thVars, tempVars, lastOp, cniVars, optVars, peer>>

Op(o, a, r, t) == [op |-> o, arg |-> a, ret |-> r, th |-> t]

\* ------------------------------------------------------------------ Init
\* The fields NewFirelensResource and parseOptions set: the config type is
\* taken as given; an external config type is "s3" or "file" and comes with
\* a value, for s3 an ARN that ParseS3ARN accepts or rejects.
Resource(type, extType, extValue) ==
  [firelensConfigType |-> type, externalConfigType |-> extType,
   externalConfigValue |-> extValue]

ParsedOptions ==
  {<<"", "">>, <<ExternalConfigTypeFile, "path">>,
   <<ExternalConfigTypeS3, "arn:ok">>, <<ExternalConfigTypeS3, "arn:malformed">>}

Resources ==
  {Resource(FirelensConfigTypeFluentbit, o[1], o[2]) : o \in ParsedOptions}
    \cup {Resource(FirelensConfigTypeFluentd, "", ""), Resource("unknown", "", "")}

\* The option keys of a firelens container and the values tried for each.
ecsLogMetadataEnableOption == "enable-ecs-log-metadata"
ExternalConfigTypeOption == "config-file-type"
externalConfigValueOption == "config-file-value"

OptionValues(key) ==
  CASE key = ecsLogMetadataEnableOption ->
         {"true", "false", "1", "0", "TRUE", "yes", ""}
    [] key = ExternalConfigTypeOption ->
         {ExternalConfigTypeS3, ExternalConfigTypeFile, "S3", ""}
    [] key = externalConfigValueOption -> {"arn:ok", "path"}

OptionKeys ==
  {ecsLogMetadataEnableOption, ExternalConfigTypeOption, externalConfigValueOption}

\* map[string]string: a function from the keys present to their values.
OptionMaps ==
  UNION {{o \in [keys -> UNION {OptionValues(k) : k \in OptionKeys}] :
            \A k \in keys : o[k] \in OptionValues(k)} : keys \in SUBSET OptionKeys}

NoOptions == [k \in {} |-> ""]

\* A second resource of the task engine, untouched: its lock is free.
InitPeer == peer = [lock |-> NoThread, knownStatusUnsafe |-> FirelensStatusNone]

\* The zero-valued fields of a FirelensResource, nothing on disk, no
\* goroutine inside a method.
ZeroResource ==
  /\ createdAtUnsafe = 0
  /\ desiredStatusUnsafe = FirelensStatusNone
  /\ knownStatusUnsafe = FirelensStatusNone
  /\ appliedStatusUnsafe = FirelensStatusNone
  /\ terminalReason = ""
  /\ terminalReasonOnce = FALSE
  /\ lock = NoThread
  /\ dirs = {}
  /\ fluentConf = Absent
  /\ externalConf = Absent
  /\ orphans = 0
  /\ pc = [t \in Threads |-> "idle"]
  /\ nextState = [t \in Threads |-> FirelensStatusNone]
  /\ destPath = [t \in Threads |-> "none"]
  /\ tempLinked = [t \in Threads |-> FALSE]
  /\ tempLen = [t \in Threads |-> 0]

\* NewFirelensResource has returned a resource: zero-valued status fields,
\* the transition table built, nothing on disk.
InitResource(resources) ==
  /\ \E r \in resources :
       /\ firelensConfigType = r.firelensConfigType
       /\ externalConfigType = r.externalConfigType
       /\ externalConfigValue = r.externalConfigValue
  /\ ZeroResource
  /\ statusToTransitions = {FirelensCreated}
  /\ lastOp = Op("NewFirelensResource", 0, "ok", NoThread)
  /\ options = NoOptions
  /\ constructed = "ok"
  /\ ecsMetadataEnabled = TRUE
  /\ InitPeer

\* NewFirelensResource is about to be called with some options: the struct
\* literal is zero-valued but for the config type, the table is not built.
InitOptions ==
  /\ firelensConfigType = FirelensConfigTypeFluentbit
  /\ externalConfigType = ""
  /\ externalConfigValue = ""
  /\ ZeroResource
  /\ statusToTransitions = {}
  /\ lastOp = Op("none", 0, "none", NoThread)
  /\ options \in OptionMaps
  /\ constructed = "pending"
  /\ ecsMetadataEnabled = FALSE
  /\ InitPeer

InitCNI(configs) ==
  /\ networkConfigs \in configs
  /\ cniPc = "idle"
  /\ cniI = 0
  /\ delCalls = <<>>
  /\ cniErr = "none"
  /\ addCalls = <<>>
  /\ cniResult = "none"

\* ------------------------------------------------- status tracker (locked)
\* lock.Lock() / lock.RLock() of an accessor succeeds when no writer holds
\* the lock; the accessor's body runs to its deferred Unlock in one step.
LockFree == lock = NoThread

\* Mutant of SetDesiredStatus: the field is assigned without the lock.
SetDesiredStatusUnlocked(status) ==
  /\ desiredStatusUnsafe' = status
  /\ lastOp' = Op("SetDesiredStatus", status, "none", NoThread)
  /\ UNCHANGED <<cfgVars, createdAtUnsafe, knownStatusUnsafe, appliedStatusUnsafe,
                 statusToTransitions, reasonVars, lock, fsVars, thVars, tempVars, cniVars, optVars, peer>>

SetDesiredStatus(status) ==
  /\ LockFree
  /\ desiredStatusUnsafe' = status
  /\ lastOp' = Op("SetDesiredStatus", status, "none", NoThread)
  /\ UNCHANGED <<cfgVars, createdAtUnsafe, knownStatusUnsafe, appliedStatusUnsafe,
                 statusToTransitions, reasonVars, lock, fsVars, thVars, tempVars, cniVars, optVars, peer>>

\* Mutant of updateAppliedStatusUnsafe: an applied status equal to the known
\* status stays in flight.
updateAppliedStatusStrict(knownStatus) ==
  IF appliedStatusUnsafe # FirelensStatusNone /\ appliedStatusUnsafe < knownStatus
    THEN FirelensStatusNone
    ELSE appliedStatusUnsafe

\* The applied status after updateAppliedStatusUnsafe(knownStatus).
updateAppliedStatusUnsafe(knownStatus) ==
  IF appliedStatusUnsafe = FirelensStatusNone
    THEN appliedStatusUnsafe
    ELSE IF appliedStatusUnsafe <= knownStatus
           THEN FirelensStatusNone
           ELSE appliedStatusUnsafe

SetKnownStatus(status) ==
  /\ LockFree
  /\ knownStatusUnsafe' = status
  /\ appliedStatusUnsafe' = updateAppliedStatusUnsafe(status)
  /\ lastOp' = Op("SetKnownStatus", status, "none", NoThread)
  /\ UNCHANGED <<cfgVars, createdAtUnsafe, desiredStatusUnsafe,
                 statusToTransitions, reasonVars, lock, fsVars, thVars, tempVars, cniVars, optVars, peer>>

\* Mutant of SetAppliedStatus: a refused call still stores its argument.
SetAppliedStatusLoserStores(status) ==
  /\ LockFree
  /\ appliedStatusUnsafe' = status
  /\ lastOp' = Op("SetAppliedStatus", status,
                  IF appliedStatusUnsafe # FirelensStatusNone THEN "false" ELSE "true",
                  NoThread)
  /\ UNCHANGED <<cfgVars, createdAtUnsafe, desiredStatusUnsafe, knownStatusUnsafe,
                 statusToTransitions, reasonVars, lock, fsVars, thVars, tempVars, cniVars, optVars, peer>>

\* Mutant of SetAppliedStatus: the in-flight check is missing.
SetAppliedStatusOverwrite(status) ==
  /\ LockFree
  /\ appliedStatusUnsafe' = status
  /\ lastOp' = Op("SetAppliedStatus", status, "true", NoThread)
  /\ UNCHANGED <<cfgVars, createdAtUnsafe, desiredStatusUnsafe, knownStatusUnsafe,
                 statusToTransitions, reasonVars, lock, fsVars, thVars, tempVars, cniVars, optVars, peer>>

SetAppliedStatus(status) ==
  /\ LockFree
  /\ IF appliedStatusUnsafe # FirelensStatusNone
       THEN /\ appliedStatusUnsafe' = appliedStatusUnsafe
            /\ lastOp' = Op("SetAppliedStatus", status, "false", NoThread)
       ELSE /\ appliedStatusUnsafe' = status
            /\ lastOp' = Op("SetAppliedStatus", status, "true", NoThread)
  /\ UNCHANGED <<cfgVars, createdAtUnsafe, desiredStatusUnsafe, knownStatusUnsafe,
                 statusToTransitions, reasonVars, lock, fsVars, thVars, tempVars, cniVars, optVars, peer>>

\* A zero time returns before the lock is taken.
SetCreatedAt(createdAt) ==
  /\ createdAt = 0 \/ LockFree
  /\ createdAtUnsafe' = IF createdAt = 0 THEN createdAtUnsafe ELSE createdAt
  /\ lastOp' = Op("SetCreatedAt", createdAt, "none", NoThread)
  /\ UNCHANGED <<cfgVars, statusVars, statusToTransitions, reasonVars, lock,
                 fsVars, thVars, tempVars, cniVars, optVars, peer>>

\* Mutant of initStatusToTransition: Removed is bound to a function too.
initStatusToTransitionWithRemoved == {FirelensCreated, FirelensRemoved}

initStatusToTransition == {FirelensCreated}

\* The values tried for the task's known and desired status handed to
\* Initialize.
TaskStatuses == {0, 1, 2}

InitializeOp(taskKnownStatus, taskDesiredStatus) ==
  [op |-> "Initialize", arg |-> taskKnownStatus, desired |-> taskDesiredStatus,
   ret |-> "none", th |-> NoThread]

\* Mutant of Initialize: the known status is reset with the table.
InitializeResetsKnown(taskKnownStatus, taskDesiredStatus) ==
  /\ LockFree
  /\ statusToTransitions' = initStatusToTransition
  /\ knownStatusUnsafe' = FirelensStatusNone
  /\ lastOp' = InitializeOp(taskKnownStatus, taskDesiredStatus)
  /\ UNCHANGED <<cfgVars, createdAtUnsafe, desiredStatusUnsafe, appliedStatusUnsafe,
                 reasonVars, lock, fsVars, thVars, tempVars, cniVars, optVars, peer>>

\* Mutant of Initialize: the desired status is taken from the task's.
InitializeTakesTaskStatus(taskKnownStatus, taskDesiredStatus) ==
  /\ LockFree
  /\ statusToTransitions' = initStatusToTransition
  /\ desiredStatusUnsafe' = taskDesiredStatus
  /\ lastOp' = InitializeOp(taskKnownStatus, taskDesiredStatus)
  /\ UNCHANGED <<cfgVars, createdAtUnsafe, knownStatusUnsafe, appliedStatusUnsafe,
                 reasonVars, lock, fsVars, thVars, tempVars, cniVars, optVars, peer>>

\* Initialize, under the write lock: the table is rebuilt and the
\* collaborators re-attached; the task's statuses are not looked at.
Initialize(taskKnownStatus, taskDesiredStatus) ==
  /\ LockFree
  /\ statusToTransitions' = initStatusToTransition
  /\ lastOp' = InitializeOp(taskKnownStatus, taskDesiredStatus)
  /\ UNCHANGED <<cfgVars, createdAtUnsafe, statusVars, reasonVars, lock,
                 fsVars, thVars, tempVars, cniVars, optVars, peer>>

GetTerminalReason ==
  /\ LockFree
  /\ lastOp' = Op("GetTerminalReason", 0, terminalReason, NoThread)
  /\ UNCHANGED <<resVars, fsVars, thVars, tempVars, cniVars, optVars, peer>>

\* A getter: the field is read under the read lock and returned.
Getter(name, value) ==
  /\ LockFree
  /\ lastOp' = Op(name, 0, value, NoThread)
  /\ UNCHANGED <<resVars, fsVars, thVars, tempVars, cniVars, optVars, peer>>

GetDesiredStatus == Getter("GetDesiredStatus", desiredStatusUnsafe)
GetKnownStatus == Getter("GetKnownStatus", knownStatusUnsafe)
GetAppliedStatus == Getter("GetAppliedStatus", appliedStatusUnsafe)
GetCreatedAt == Getter("GetCreatedAt", createdAtUnsafe)

\* Mutant of NextKnownState: the known status itself is returned.
NextKnownStateSame ==
  /\ LockFree
  /\ lastOp' = Op("NextKnownState", 0, knownStatusUnsafe, NoThread)
  /\ UNCHANGED <<resVars, fsVars, thVars, tempVars, cniVars, optVars, peer>>

\* NextKnownState: GetKnownStatus() under the read lock, plus one.
NextKnownState ==
  /\ LockFree
  /\ lastOp' = Op("NextKnownState", 0, knownStatusUnsafe + 1, NoThread)
  /\ UNCHANGED <<resVars, fsVars, thVars, tempVars, cniVars, optVars, peer>>

\* Mutant of setTerminalReason: a plain assignment, without the Once.
setTerminalReasonLastWins(reason) ==
  /\ terminalReason' = reason
  /\ terminalReasonOnce' = TRUE

\* terminalReasonOnce.Do: only the first call assigns.
setTerminalReason(reason) ==
  /\ terminalReason' = IF terminalReasonOnce THEN terminalReason ELSE reason
  /\ terminalReasonOnce' = TRUE


\* ------------------------------------------------------- ApplyTransition
\* What nextState[t] holds while goroutine t runs Create called as a method
\* of its own, not as the function bound to a transition.
DirectCall == -1

\* The method goroutine t has called.
Via(t) == IF nextState[t] = DirectCall THEN "Create" ELSE "ApplyTransition"

\* A step of goroutine t inside ApplyTransition that does not return.
Running(t) == lastOp' = Op(Via(t), nextState[t], "running", t)

\* The method called returns r; for ApplyTransition the deferred Unlock
\* runs, Create called directly holds no lock.
Return(t, r) ==
  /\ pc' = [pc EXCEPT ![t] = "idle"]
  /\ nextState' = [nextState EXCEPT ![t] = FirelensStatusNone]
  /\ destPath' = [destPath EXCEPT ![t] = "none"]
  /\ lock' = IF nextState[t] = DirectCall THEN lock ELSE NoThread
  /\ lastOp' = Op(Via(t), nextState[t], r, t)

\* Goroutine t calls ApplyTransition(status) and reaches lock.Lock().
ApplyTransitionCall(t, status) ==
  /\ pc[t] = "idle"
  /\ pc' = [pc EXCEPT ![t] = "lock"]
  /\ nextState' = [nextState EXCEPT ![t] = status]
  /\ lastOp' = Op("ApplyTransition", status, "running", t)
  /\ UNCHANGED <<resVars, fsVars, destPath, tempVars, cniVars, optVars, peer>>

\* Mutant of ApplyTransitionLock: the lock is taken whoever holds it.
ApplyTransitionNoExclusion(t) ==
  /\ pc[t] = "lock"
  /\ lock' = t
  /\ pc' = [pc EXCEPT ![t] = "lookup"]
  /\ Running(t)
  /\ UNCHANGED <<cfgVars, createdAtUnsafe, statusVars, statusToTransitions, reasonVars,
                 fsVars, nextState, destPath, tempVars, cniVars, optVars, peer>>

\* lock.Lock() returns once no other goroutine holds the lock.
ApplyTransitionLock(t) ==
  /\ pc[t] = "lock"
  /\ lock = NoThread
  /\ lock' = t
  /\ pc' = [pc EXCEPT ![t] = "lookup"]
  /\ Running(t)
  /\ UNCHANGED <<cfgVars, createdAtUnsafe, statusVars, statusToTransitions, reasonVars,
                 fsVars, nextState, destPath, tempVars, cniVars, optVars, peer>>

\* Mutant of ApplyTransitionLookup: the result of the lookup is not checked
\* and the bound function is entered for any status.
ApplyTransitionLookupUnchecked(t) ==
  /\ pc[t] = "lookup"
  /\ pc' = [pc EXCEPT ![t] = "validate"]
  /\ Running(t)
  /\ UNCHANGED <<resVars, fsVars, nextState, destPath, tempVars, cniVars, optVars, peer>>

\* Mutant of ApplyTransitionLookup: the bound function is entered only for
\* a resource whose known status is None.
ApplyTransitionLookupFromNone(t) ==
  /\ pc[t] = "lookup"
  /\ IF nextState[t] \notin statusToTransitions
         \/ knownStatusUnsafe # FirelensStatusNone
       THEN /\ setTerminalReason(ReasonTransition)
            /\ Return(t, "err")
       ELSE /\ pc' = [pc EXCEPT ![t] = "validate"]
            /\ Running(t)
            /\ UNCHANGED <<reasonVars, lock, nextState, destPath>>
  /\ UNCHANGED <<cfgVars, createdAtUnsafe, statusVars, statusToTransitions,
                 fsVars, tempVars, cniVars, optVars, peer>>

\* The table lookup: an unregistered status records the terminal reason and
\* returns the error; a registered one enters the bound function, Create.
ApplyTransitionLookup(t) ==
  /\ pc[t] = "lookup"
  /\ IF nextState[t] \notin statusToTransitions
       THEN /\ setTerminalReason(ReasonTransition)
            /\ Return(t, "err")
       ELSE /\ pc' = [pc EXCEPT ![t] = "validate"]
            /\ Running(t)
            /\ UNCHANGED <<reasonVars, lock, nextState, destPath>>
  /\ UNCHANGED <<cfgVars, createdAtUnsafe, statusVars, statusToTransitions,
                 fsVars, tempVars, cniVars, optVars, peer>>

\* ---------------------------------------------------------------- Create
\* Goroutine t calls the public method Create itself: no lock is taken.
DirectCreate(t) ==
  /\ pc[t] = "idle"
  /\ pc' = [pc EXCEPT ![t] = "validate"]
  /\ nextState' = [nextState EXCEPT ![t] = DirectCall]
  /\ lastOp' = Op("Create", DirectCall, "running", t)
  /\ UNCHANGED <<resVars, fsVars, destPath, tempVars, cniVars, optVars, peer>>

\* Mutant of CreateFail: the error is returned without being recorded.
CreateFailSilent(t, reason) ==
  /\ UNCHANGED reasonVars
  /\ Return(t, "err")

\* Create fails at a stage: the wrapped error is the terminal reason.
CreateFail(t, reason) ==
  /\ setTerminalReason(reason)
  /\ Return(t, "err")

\* Mutant of CreateValidate: the configuration type is not looked at.
CreateValidateUnchecked(t) ==
  /\ pc[t] = "validate"
  /\ pc' = [pc EXCEPT ![t] = "mkdir_config"]
  /\ Running(t)
  /\ UNCHANGED <<resVars, fsVars, nextState, destPath, tempVars, cniVars, optVars, peer>>

\* Fail fast on an invalid firelens configuration type.
CreateValidate(t) ==
  /\ pc[t] = "validate"
  /\ IF firelensConfigType # FirelensConfigTypeFluentd
        /\ firelensConfigType # FirelensConfigTypeFluentbit
       THEN CreateFail(t, ReasonConfigType)
       ELSE /\ pc' = [pc EXCEPT ![t] = "mkdir_config"]
            /\ Running(t)
            /\ UNCHANGED <<reasonVars, lock, nextState, destPath>>
  /\ UNCHANGED <<cfgVars, createdAtUnsafe, statusVars, statusToTransitions,
                 fsVars, tempVars, cniVars, optVars, peer>>

\* Mutant of AfterDirectories: any external config is downloaded.
AfterDirectoriesAnyExternal ==
  IF externalConfigType # "" THEN "s3_creds" ELSE "generate"

\* The stage after createDirectories.
AfterDirectories ==
  IF externalConfigType = ExternalConfigTypeS3 THEN "s3_creds" ELSE "generate"

\* createDirectories: mkdirAll(configDir), then mkdirAll(socketDir).
createDirectories(t) ==
  /\ pc[t] \in {"mkdir_config", "mkdir_socket"}
  /\ \/ /\ dirs' = dirs \cup {"resource", IF pc[t] = "mkdir_config" THEN "config" ELSE "socket"}
        /\ pc' = [pc EXCEPT ![t] = IF pc[t] = "mkdir_config" THEN "mkdir_socket"
                                                              ELSE AfterDirectories]
        /\ Running(t)
        /\ UNCHANGED <<reasonVars, lock, nextState, destPath>>
     \/ /\ CreateFail(t, ReasonDirectory)
        /\ UNCHANGED dirs
  /\ UNCHANGED <<cfgVars, createdAtUnsafe, statusVars, statusToTransitions,
                 fluentConf, externalConf, orphans, tempVars, cniVars, optVars, peer>>

\* Mutant of S3Stage: a failed stage removes the directories Create made.
S3StageRollsBack(t, stage, next) ==
  /\ pc[t] = stage
  /\ \/ /\ pc' = [pc EXCEPT ![t] = next]
        /\ destPath' = [destPath EXCEPT ![t] = IF next = "temp" THEN "external" ELSE @]
        /\ Running(t)
        /\ UNCHANGED <<reasonVars, lock, nextState, dirs>>
     \/ /\ CreateFail(t, ReasonDownload)
        /\ dirs' = dirs \ {"config", "socket"}
  /\ UNCHANGED <<cfgVars, createdAtUnsafe, statusVars, statusToTransitions,
                 fluentConf, externalConf, orphans, tempVars, cniVars, optVars, peer>>

\* downloadConfigFromS3 up to its call of writeConfigFile: the credentials
\* lookup, ParseS3ARN, NewS3ClientForBucket.
S3Stage(t, stage, next) ==
  /\ pc[t] = stage
  /\ \/ /\ pc' = [pc EXCEPT ![t] = next]
        /\ destPath' = [destPath EXCEPT ![t] = IF next = "temp" THEN "external" ELSE @]
        /\ Running(t)
        /\ UNCHANGED <<reasonVars, lock, nextState>>
     \/ CreateFail(t, ReasonDownload)
  /\ UNCHANGED <<cfgVars, createdAtUnsafe, statusVars, statusToTransitions,
                 fsVars, tempVars, cniVars, optVars, peer>>

GetTaskCredentials(t) == S3Stage(t, "s3_creds", "s3_parse")

\* Mutant of ParseS3ARN: a malformed ARN goes on to the client construction.
ParseS3ARNUnchecked(t) ==
  /\ pc[t] = "s3_parse"
  /\ pc' = [pc EXCEPT ![t] = "s3_client"]
  /\ Running(t)
  /\ UNCHANGED <<resVars, fsVars, nextState, destPath, tempVars, cniVars, optVars, peer>>

ParseS3ARN(t) ==
  /\ pc[t] = "s3_parse"
  /\ IF externalConfigValue = "arn:ok"
       THEN /\ pc' = [pc EXCEPT ![t] = "s3_client"]
            /\ Running(t)
            /\ UNCHANGED <<reasonVars, lock, nextState, destPath>>
       ELSE CreateFail(t, ReasonDownload)
  /\ UNCHANGED <<cfgVars, createdAtUnsafe, statusVars, statusToTransitions,
                 fsVars, tempVars, cniVars, optVars, peer>>

NewS3ClientForBucket(t) == S3Stage(t, "s3_client", "temp")

\* generateConfigFile up to its call of writeConfigFile: generateConfig.
generateConfig(t) ==
  /\ pc[t] = "generate"
  /\ \/ /\ pc' = [pc EXCEPT ![t] = "temp"]
        /\ destPath' = [destPath EXCEPT ![t] = "fluent"]
        /\ Running(t)
        /\ UNCHANGED <<reasonVars, lock, nextState>>
     \/ CreateFail(t, ReasonGenerate)
  /\ UNCHANGED <<cfgVars, createdAtUnsafe, statusVars, statusToTransitions,
                 fsVars, tempVars, cniVars, optVars, peer>>


\* ------------------------------------------------------- writeConfigFile
WriteStages == {"temp", "write", "chmod", "sync", "rename"}

\* What the content function writes: the rendered config of the resource's
\* variant for fluent.conf, the S3 object for external.conf.
Writer(t) == IF destPath[t] = "external" THEN "s3object" ELSE firelensConfigType

\* writeConfigFile returns an error: only the deferred temp.Close() runs, so
\* a temp file still linked in the resource directory stays there. The
\* caller wraps the error and Create records it.
writeConfigFileFail(t) ==
  /\ CreateFail(t, IF destPath[t] = "external" THEN ReasonDownload ELSE ReasonGenerate)
  /\ orphans' = IF tempLinked[t] THEN orphans + 1 ELSE orphans
  /\ tempLinked' = [tempLinked EXCEPT ![t] = FALSE]
  /\ tempLen' = [tempLen EXCEPT ![t] = 0]

\* ioutil.TempFile(resourceDir, tempFile): a new, empty, uniquely named file.
TempFile(t) ==
  /\ pc[t] = "temp"
  /\ \/ /\ "resource" \in dirs
        /\ orphans < MaxOrphans
        /\ tempLinked' = [tempLinked EXCEPT ![t] = TRUE]
        /\ tempLen' = [tempLen EXCEPT ![t] = 0]
        /\ pc' = [pc EXCEPT ![t] = "write"]
        /\ Running(t)
        /\ UNCHANGED <<reasonVars, lock, nextState, destPath, orphans>>
     \/ writeConfigFileFail(t)
  /\ UNCHANGED <<cfgVars, createdAtUnsafe, statusVars, statusToTransitions,
                 dirs, fluentConf, externalConf, cniVars, optVars, peer>>

\* Mutant of writeFunc: its error is dropped and the write goes on to chmod.
writeFuncErrorDropped(t) ==
  /\ pc[t] = "write"
  /\ \/ /\ tempLen' = [tempLen EXCEPT ![t] = @ + 1]
        /\ pc' = [pc EXCEPT ![t] = IF tempLen[t] + 1 = FullLen THEN "chmod" ELSE "write"]
     \/ /\ pc' = [pc EXCEPT ![t] = "chmod"]
        /\ UNCHANGED tempLen
  /\ Running(t)
  /\ UNCHANGED <<cfgVars, createdAtUnsafe, statusVars, statusToTransitions, reasonVars,
                 lock, nextState, destPath, orphans, tempLinked,
                 dirs, fluentConf, externalConf, cniVars, optVars, peer>>

\* writeFunc(temp): the content goes to the temp file chunk by chunk and
\* the function can fail after any of them.
writeFunc(t) ==
  /\ pc[t] = "write"
  /\ \/ /\ tempLen' = [tempLen EXCEPT ![t] = @ + 1]
        /\ pc' = [pc EXCEPT ![t] = IF tempLen[t] + 1 = FullLen THEN "chmod" ELSE "write"]
        /\ Running(t)
        /\ UNCHANGED <<reasonVars, lock, nextState, destPath, orphans, tempLinked>>
     \/ writeConfigFileFail(t)
  /\ UNCHANGED <<cfgVars, createdAtUnsafe, statusVars, statusToTransitions,
                 dirs, fluentConf, externalConf, cniVars, optVars, peer>>

\* temp.Chmod(configFilePerm), then temp.Sync().
ChmodSync(t) ==
  /\ pc[t] \in {"chmod", "sync"}
  /\ \/ /\ pc' = [pc EXCEPT ![t] = IF pc[t] = "chmod" THEN "sync" ELSE "rename"]
        /\ Running(t)
        /\ UNCHANGED <<reasonVars, lock, nextState, destPath, orphans, tempVars>>
     \/ writeConfigFileFail(t)
  /\ UNCHANGED <<cfgVars, createdAtUnsafe, statusVars, statusToTransitions,
                 dirs, fluentConf, externalConf, cniVars, optVars, peer>>

\* The destination files after rename(temp.Name(), filePath) succeeded.
Renamed(t) ==
  /\ fluentConf' = IF destPath[t] = "fluent"
                     THEN Content(tempLen[t], Writer(t)) ELSE fluentConf
  /\ externalConf' = IF destPath[t] = "external"
                       THEN Content(tempLen[t], Writer(t)) ELSE externalConf

\* Mutant of rename: the destination is removed before the move, so a
\* failing move leaves it absent.
renameRemovesFirst(t) ==
  /\ pc[t] = "rename"
  /\ \/ /\ tempLinked[t]
        /\ "config" \in dirs
        /\ Renamed(t)
        /\ tempLinked' = [tempLinked EXCEPT ![t] = FALSE]
        /\ tempLen' = [tempLen EXCEPT ![t] = 0]
        /\ IF destPath[t] = "external"
             THEN /\ pc' = [pc EXCEPT ![t] = "generate"]
                  /\ destPath' = [destPath EXCEPT ![t] = "none"]
                  /\ Running(t)
                  /\ UNCHANGED <<lock, nextState>>
             ELSE Return(t, "ok")
        /\ UNCHANGED <<reasonVars, orphans>>
     \/ /\ writeConfigFileFail(t)
        /\ fluentConf' = IF destPath[t] = "fluent" THEN Absent ELSE fluentConf
        /\ externalConf' = IF destPath[t] = "external" THEN Absent ELSE externalConf
  /\ UNCHANGED <<cfgVars, createdAtUnsafe, statusVars, statusToTransitions,
                 dirs, cniVars, optVars, peer>>

\* Mutant of rename: the successful return of Create records the known
\* status Created itself.
renameMarksCreated(t) ==
  /\ pc[t] = "rename"
  /\ \/ /\ tempLinked[t]
        /\ "config" \in dirs
        /\ Renamed(t)
        /\ tempLinked' = [tempLinked EXCEPT ![t] = FALSE]
        /\ tempLen' = [tempLen EXCEPT ![t] = 0]
        /\ IF destPath[t] = "external"
             THEN /\ pc' = [pc EXCEPT ![t] = "generate"]
                  /\ destPath' = [destPath EXCEPT ![t] = "none"]
                  /\ Running(t)
                  /\ UNCHANGED <<lock, nextState, statusVars>>
             ELSE /\ Return(t, "ok")
                  /\ knownStatusUnsafe' = FirelensCreated
                  /\ appliedStatusUnsafe' = updateAppliedStatusUnsafe(FirelensCreated)
                  /\ UNCHANGED desiredStatusUnsafe
        /\ UNCHANGED <<reasonVars, orphans>>
     \/ /\ writeConfigFileFail(t)
        /\ UNCHANGED <<fluentConf, externalConf, statusVars>>
  /\ UNCHANGED <<cfgVars, createdAtUnsafe, statusToTransitions,
                 dirs, cniVars, optVars, peer>>

\* rename(temp.Name(), filePath) and the return that follows it. After
\* external.conf, Create goes on to generateConfigFile; after fluent.conf it
\* returns nil.
rename(t) ==
  /\ pc[t] = "rename"
  /\ \/ /\ tempLinked[t]
        /\ "config" \in dirs
        /\ Renamed(t)
        /\ tempLinked' = [tempLinked EXCEPT ![t] = FALSE]
        /\ tempLen' = [tempLen EXCEPT ![t] = 0]
        /\ IF destPath[t] = "external"
             THEN /\ pc' = [pc EXCEPT ![t] = "generate"]
                  /\ destPath' = [destPath EXCEPT ![t] = "none"]
                  /\ Running(t)
                  /\ UNCHANGED <<lock, nextState>>
             ELSE Return(t, "ok")
        /\ UNCHANGED <<reasonVars, orphans>>
     \/ /\ writeConfigFileFail(t)
        /\ UNCHANGED <<fluentConf, externalConf>>
  /\ UNCHANGED <<cfgVars, createdAtUnsafe, statusVars, statusToTransitions,
                 dirs, cniVars, optVars, peer>>

\* --------------------------------------------------------------- Cleanup
\* Mutant of Cleanup: removing a directory that is not there is an error.
CleanupErrorsOnAbsent ==
  /\ IF "resource" \in dirs
       THEN /\ dirs' = {}
            /\ fluentConf' = Absent
            /\ externalConf' = Absent
            /\ orphans' = 0
            /\ tempLinked' = [t \in Threads |-> FALSE]
            /\ lastOp' = Op("Cleanup", 0, "ok", NoThread)
       ELSE /\ UNCHANGED <<fsVars, tempLinked>>
            /\ lastOp' = Op("Cleanup", 0, "err", NoThread)
  /\ UNCHANGED <<resVars, thVars, tempLen, cniVars, optVars, peer>>

\* removeAll(resourceDir) takes no lock. It removes the whole tree, or
\* fails having removed only part of it (the resource directory itself then
\* remains); an open temp file is unlinked like any other.
Cleanup ==
  /\ \/ /\ dirs' = {}
        /\ fluentConf' = Absent
        /\ externalConf' = Absent
        /\ orphans' = 0
        /\ tempLinked' = [t \in Threads |-> FALSE]
        /\ lastOp' = Op("Cleanup", 0, "ok", NoThread)
     \/ /\ "resource" \in dirs
        /\ \E d \in SUBSET (dirs \ {"resource"}),
              f \in {fluentConf, Absent}, e \in {externalConf, Absent},
              o \in 0..orphans, l \in SUBSET {t \in Threads : tempLinked[t]} :
             /\ "config" \notin d => f = Absent /\ e = Absent
             /\ dirs' = d \cup {"resource"}
             /\ fluentConf' = f
             /\ externalConf' = e
             /\ orphans' = o
             /\ tempLinked' = [t \in Threads |-> t \in l]
        /\ lastOp' = Op("Cleanup", 0, "err", NoThread)
  /\ UNCHANGED <<resVars, thVars, tempLen, cniVars, optVars, peer>>


\* --------------------------------------------------------- a second resource
\* The goroutine of the task engine that applies the peer's transitions.
PeerThread == 3
PeerLockFree == peer.lock = NoThread

\* SetKnownStatus and GetKnownStatus of the peer take the peer's lock.
PeerSetKnownStatus(status) ==
  /\ PeerLockFree
  /\ peer' = [peer EXCEPT !.knownStatusUnsafe = status]
  /\ lastOp' = Op("peer.SetKnownStatus", status, "none", NoThread)
  /\ UNCHANGED <<resVars, fsVars, thVars, tempVars, cniVars, optVars>>

PeerGetKnownStatus ==
  /\ PeerLockFree
  /\ lastOp' = Op("peer.GetKnownStatus", 0, peer.knownStatusUnsafe, NoThread)
  /\ UNCHANGED <<resVars, fsVars, thVars, tempVars, cniVars, optVars, peer>>

\* ApplyTransition of the peer: its lock is held from Lock to the return.
PeerApplyTransition ==
  /\ PeerLockFree
  /\ peer' = [peer EXCEPT !.lock = PeerThread]
  /\ lastOp' = Op("peer.ApplyTransition", FirelensCreated, "running", PeerThread)
  /\ UNCHANGED <<resVars, fsVars, thVars, tempVars, cniVars, optVars>>

PeerApplyTransitionReturn ==
  /\ peer.lock = PeerThread
  /\ peer' = [peer EXCEPT !.lock = NoThread]
  /\ lastOp' = Op("peer.ApplyTransition", FirelensCreated, "ok", PeerThread)
  /\ UNCHANGED <<resVars, fsVars, thVars, tempVars, cniVars, optVars>>

\* ---------------------------------------------------------- construction
\* strconv.ParseBool: the twelve spellings it accepts, an error otherwise.
ParseBool(str) ==
  IF str \in {"1", "t", "T", "TRUE", "true", "True"}
    THEN [err |-> FALSE, b |-> TRUE]
    ELSE IF str \in {"0", "f", "F", "FALSE", "false", "False"}
           THEN [err |-> FALSE, b |-> FALSE]
           ELSE [err |-> TRUE, b |-> FALSE]

\* What parseOptions leaves in ecsMetadataEnabled: true without the option,
\* the parsed value with one that parses, and with one that does not the
\* field is not assigned and keeps the zero value of the struct literal.
parseMetadataOption(opts) ==
  IF ecsLogMetadataEnableOption \in DOMAIN opts
    THEN IF ParseBool(opts[ecsLogMetadataEnableOption]).err
           THEN FALSE
           ELSE ParseBool(opts[ecsLogMetadataEnableOption]).b
    ELSE TRUE

Parsed(e, type, value, opts) ==
  [err |-> e, externalConfigType |-> type, externalConfigValue |-> value,
   ecsMetadataEnabled |-> parseMetadataOption(opts)]

\* Mutant of parseOptions: the external config type is taken as given.
parseOptionsAnyType(opts) ==
  IF ExternalConfigTypeOption \in DOMAIN opts
    THEN IF externalConfigValueOption \notin DOMAIN opts
           THEN Parsed(TRUE, opts[ExternalConfigTypeOption], "", opts)
           ELSE Parsed(FALSE, opts[ExternalConfigTypeOption],
                       opts[externalConfigValueOption], opts)
    ELSE Parsed(FALSE, "", "", opts)

\* parseOptions: the error it returns and the fields it has assigned by then.
parseOptions(opts) ==
  IF ExternalConfigTypeOption \in DOMAIN opts
    THEN IF opts[ExternalConfigTypeOption] # ExternalConfigTypeS3
              /\ opts[ExternalConfigTypeOption] # ExternalConfigTypeFile
           THEN Parsed(TRUE, "", "", opts)
           ELSE IF externalConfigValueOption \notin DOMAIN opts
                  THEN Parsed(TRUE, opts[ExternalConfigTypeOption], "", opts)
                  ELSE Parsed(FALSE, opts[ExternalConfigTypeOption],
                              opts[externalConfigValueOption], opts)
    ELSE Parsed(FALSE, "", "", opts)

\* NewFirelensResource: on an error of parseOptions it returns nil and the
\* struct is dropped; otherwise the table is built and the resource
\* returned with the fields parseOptions assigned. It touches no file.
NewFirelensResource ==
  /\ constructed = "pending"
  /\ IF parseOptions(options).err
       THEN /\ constructed' = "err"
            /\ lastOp' = Op("NewFirelensResource", 0, "err", NoThread)
            /\ UNCHANGED <<cfgVars, statusToTransitions, ecsMetadataEnabled>>
       ELSE /\ constructed' = "ok"
            /\ externalConfigType' = parseOptions(options).externalConfigType
            /\ externalConfigValue' = parseOptions(options).externalConfigValue
            /\ ecsMetadataEnabled' = parseOptions(options).ecsMetadataEnabled
            /\ statusToTransitions' = initStatusToTransition
            /\ lastOp' = Op("NewFirelensResource", 0, "ok", NoThread)
            /\ UNCHANGED firelensConfigType
  /\ UNCHANGED <<createdAtUnsafe, statusVars, reasonVars, lock, fsVars, thVars,
                 tempVars, cniVars, options, peer>>

\* ---------------------------------------------------------------- ecscni
\* The configs CleanupNS is given: up to MaxNetworks entries, in order.
Configs == UNION {[1..n -> Plugins] : n \in 0..MaxNetworks}

\* CleanupNS derives the deadline and enters cleanupNS, whose loop starts at
\* the last entry.
CleanupNS ==
  /\ cniPc \in {"idle", "done", "added"}
  /\ cniPc' = "loop"
  /\ cniI' = Len(networkConfigs)
  /\ delCalls' = <<>>
  /\ cniErr' = "none"
  /\ UNCHANGED <<networkConfigs, addCalls, cniResult, restVars>>

\* Mutant of DelNetwork: a failed DEL is remembered and the loop goes on.
DelNetworkKeepsGoing ==
  /\ cniPc = "loop"
  /\ cniI >= 1
  /\ \E ok \in BOOLEAN :
       /\ delCalls' = Append(delCalls, [idx |-> cniI, net |-> networkConfigs[cniI], ok |-> ok])
       /\ cniI' = cniI - 1
       /\ cniErr' = IF ok THEN cniErr ELSE "delete network failed"
       /\ UNCHANGED cniPc
  /\ UNCHANGED <<networkConfigs, addCalls, cniResult, restVars>>

\* One iteration of cleanupNS: DelNetwork for entry cniI, which the plugin
\* (or the deadline) lets succeed or fail; a failure returns at once.
DelNetwork ==
  /\ cniPc = "loop"
  /\ cniI >= 1
  /\ \E ok \in BOOLEAN :
       /\ delCalls' = Append(delCalls, [idx |-> cniI, net |-> networkConfigs[cniI], ok |-> ok])
       /\ IF ok
            THEN /\ cniI' = cniI - 1
                 /\ UNCHANGED <<cniPc, cniErr>>
            ELSE /\ cniPc' = "done"
                 /\ cniErr' = "delete network failed"
                 /\ UNCHANGED cniI
  /\ UNCHANGED <<networkConfigs, addCalls, cniResult, restVars>>

\* The loop of cleanupNS ran past the first entry: return nil.
cleanupNSReturn ==
  /\ cniPc = "loop"
  /\ cniI = 0
  /\ cniPc' = "done"
  /\ cniErr' = "nil"
  /\ UNCHANGED <<networkConfigs, cniI, delCalls, addCalls, cniResult, restVars>>

\* The result an ADD reports for entry i; NoResult is the nil result.
NoResult == [idx |-> 0, net |-> "none"]
Result(i) == [idx |-> i, net |-> networkConfigs[i]]

\* SetupNS derives the deadline and enters setupNS, whose loop starts at
\* the first entry.
SetupNS ==
  /\ cniPc \in {"idle", "done", "added"}
  /\ cniPc' = "add"
  /\ cniI' = 1
  /\ addCalls' = <<>>
  /\ cniErr' = "none"
  /\ cniResult' = NoResult
  /\ UNCHANGED <<networkConfigs, delCalls, restVars>>

\* Mutant of AddNetwork: a failed ADD is tried again for the same entry.
AddNetworkRetries ==
  /\ cniPc = "add"
  /\ cniI <= Len(networkConfigs)
  /\ \E ok \in BOOLEAN :
       /\ addCalls' = Append(addCalls, [idx |-> cniI, net |-> networkConfigs[cniI], ok |-> ok])
       /\ cniI' = IF ok THEN cniI + 1 ELSE cniI
       /\ cniResult' = IF ok /\ cniI = 1 THEN Result(cniI) ELSE cniResult
       /\ Len(addCalls) < MaxNetworks + 1
       /\ UNCHANGED <<cniPc, cniErr>>
  /\ UNCHANGED <<networkConfigs, delCalls, restVars>>

\* One iteration of setupNS: AddNetwork for entry cniI, which the plugin
\* (or the deadline) lets succeed or fail; a failure returns at once with
\* a nil result, the result of the first entry is the one kept.
AddNetwork ==
  /\ cniPc = "add"
  /\ cniI <= Len(networkConfigs)
  /\ \E ok \in BOOLEAN :
       /\ addCalls' = Append(addCalls, [idx |-> cniI, net |-> networkConfigs[cniI], ok |-> ok])
       /\ IF ok
            THEN /\ cniI' = cniI + 1
                 /\ cniResult' = IF cniI = 1 THEN Result(cniI) ELSE cniResult
                 /\ UNCHANGED <<cniPc, cniErr>>
            ELSE /\ cniPc' = "added"
                 /\ cniErr' = "add network failed"
                 /\ cniResult' = NoResult
                 /\ UNCHANGED cniI
  /\ UNCHANGED <<networkConfigs, delCalls, restVars>>

\* The loop of setupNS ran past the last entry: return the kept result.
setupNSReturn ==
  /\ cniPc = "add"
  /\ cniI > Len(networkConfigs)
  /\ cniPc' = "added"
  /\ cniErr' = "nil"
  /\ UNCHANGED <<networkConfigs, cniI, delCalls, addCalls, cniResult, restVars>>

\* -------------------------------------------------------- specifications
\* The steps of ApplyTransition and of Create without an external config.
CreateStep(t) ==
  \/ \E s \in Status : ApplyTransitionCall(t, s)
  \/ ApplyTransitionLock(t)
  \/ ApplyTransitionLookup(t)
  \/ CreateValidate(t)
  \/ createDirectories(t)
  \/ generateConfig(t)
  \/ TempFile(t)
  \/ writeFunc(t)
  \/ ChmodSync(t)
  \/ rename(t)

\* The stages of downloadConfigFromS3 before its write.
ExternalStep(t) ==
  \/ GetTaskCredentials(t)
  \/ ParseS3ARN(t)
  \/ NewS3ClientForBucket(t)

StatusStep ==
  \/ \E s \in Status : SetDesiredStatus(s)
  \/ \E s \in Status : SetKnownStatus(s)
  \/ \E s \in Status : SetAppliedStatus(s)

\* The lifecycle of one resource of any configuration: goroutines applying
\* transitions, Cleanup, Initialize and the terminal reason's reader.
Init ==
  /\ InitResource(Resources)
  /\ InitCNI({<<>>})

Next ==
  \/ \E t \in Threads : CreateStep(t) \/ ExternalStep(t)
  \/ Cleanup
  \/ \E k, d \in TaskStatuses : Initialize(k, d)
  \/ GetTerminalReason

Spec == Init /\ [][Next]_vars

\* Goroutines applying transitions to a resource that nothing cleans up.
NextCreate == \E t \in Threads : CreateStep(t) \/ ExternalStep(t)

SpecCreate == Init /\ [][NextCreate]_vars

\* The status tracker of a fluentbit resource without external config:
\* the status accessors interleaved with goroutines applying transitions.
InitTracker ==
  /\ InitResource({Resource(FirelensConfigTypeFluentbit, "", "")})
  /\ InitCNI({<<>>})

NextTracker ==
  \/ \E t \in Threads : CreateStep(t)
  \/ StatusStep
  \/ \E k, d \in TaskStatuses : Initialize(k, d)
  \/ GetTerminalReason
  \/ NextKnownState

SpecTracker == InitTracker /\ [][NextTracker]_vars

\* The accessors of the statuses, of createdAt and of the terminal reason.
LockedAccessor ==
  \/ StatusStep
  \/ GetDesiredStatus
  \/ GetKnownStatus
  \/ GetAppliedStatus
  \/ GetCreatedAt
  \/ GetTerminalReason
  \/ \E c \in 1..MaxTime : SetCreatedAt(c)

PeerStep ==
  \/ \E s \in Status : PeerSetKnownStatus(s)
  \/ PeerGetKnownStatus
  \/ PeerApplyTransition
  \/ PeerApplyTransitionReturn

\* Two resources of one task engine: goroutines applying transitions to the
\* first while its accessors and those of the second are called.
NextLock ==
  \/ \E t \in Threads : CreateStep(t)
  \/ \E c \in 0..MaxTime : SetCreatedAt(c)
  \/ GetCreatedAt
  \/ GetKnownStatus
  \/ GetDesiredStatus
  \/ GetAppliedStatus
  \/ PeerStep

SpecLock == InitTracker /\ [][NextLock]_vars

\* A resource of an unknown type, whose every Create fails at once, across
\* restarts: the setters, the failing transitions and Initialize.
InitRestart ==
  /\ InitResource({Resource("unknown", "", "")})
  /\ InitCNI({<<>>})

NextRestart ==
  \/ \E t \in Threads :
        \/ \E s \in Status : ApplyTransitionCall(t, s)
        \/ ApplyTransitionLock(t)
        \/ ApplyTransitionLookup(t)
        \/ CreateValidate(t)
  \/ StatusStep
  \/ \E c \in 0..MaxTime : SetCreatedAt(c)
  \/ \E k, d \in TaskStatuses : Initialize(k, d)

SpecRestart == InitRestart /\ [][NextRestart]_vars

\* A resource of an unknown type whose Create is called both through
\* ApplyTransition and directly, while the terminal reason is read.
NextDirect ==
  \/ \E t \in Threads :
        \/ \E s \in Status : ApplyTransitionCall(t, s)
        \/ ApplyTransitionLock(t)
        \/ ApplyTransitionLookup(t)
        \/ DirectCreate(t)
        \/ CreateValidate(t)
  \/ GetTerminalReason

SpecDirect == InitRestart /\ [][NextDirect]_vars

\* The construction of a resource from any option map.
InitConstruction ==
  /\ InitOptions
  /\ InitCNI({<<>>})

NextConstruction == NewFirelensResource

SpecOptions == InitConstruction /\ [][NextConstruction]_vars

\* The ecscni client setting up and cleaning up the namespace of any config.
InitCNIOnly ==
  /\ InitResource({Resource(FirelensConfigTypeFluentbit, "", "")})
  /\ InitCNI(Configs)

NextCNI ==
  \/ CleanupNS
  \/ DelNetwork
  \/ cleanupNSReturn
  \/ SetupNS
  \/ AddNetwork
  \/ setupNSReturn

SpecCNI == InitCNIOnly /\ [][NextCNI]_vars


\* ---------------------------------------------------------------- claims
\* The goroutine whose step of ApplyTransition the last step was.
Mover(t) == lastOp'.th = t

CreateStages ==
  {"validate", "mkdir_config", "mkdir_socket", "s3_creds", "s3_parse",
   "s3_client", "generate"} \cup WriteStages

\* C1: once a failure has set the terminal reason, no later step (no later
\* failure of ApplyTransition or of a stage of Create) changes it, and
\* GetTerminalReason returns it.
C1_TerminalReasonFirstWins ==
  [][/\ terminalReason # "" => terminalReason' = terminalReason
     /\ lastOp'.op = "GetTerminalReason" => lastOp'.ret = terminalReason]_vars

\* A transition to an unregistered status has just failed after the reason
\* of an earlier, different failure was recorded: the earlier reason stands.
C1_Witness ==
  /\ lastOp.op = "ApplyTransition"
  /\ lastOp.ret = "err"
  /\ lastOp.arg = FirelensRemoved
  /\ terminalReason \in {ReasonDirectory, ReasonDownload, ReasonGenerate}

\* C2: ApplyTransition to a status without an entry in the transition table
\* returns the state-transition error from the lookup without entering
\* Create, and from the moment it holds the lock to its return the known
\* and the applied status keep their values.
C2_UnregisteredTransitionFails ==
  [][\A t \in Threads :
       nextState[t] \notin statusToTransitions =>
         /\ (Mover(t) /\ pc[t] = "lookup") =>
              /\ lastOp' = Op("ApplyTransition", nextState[t], "err", t)
              /\ pc'[t] = "idle"
         /\ pc[t] \notin CreateStages /\ pc'[t] \notin CreateStages
         /\ (Mover(t) \/ lock = t) =>
              UNCHANGED <<knownStatusUnsafe, appliedStatusUnsafe>>]_vars

\* ApplyTransition(Removed) has returned its error with the known status
\* Created and an applied status in flight.
C2_Witness ==
  /\ lastOp = Op("ApplyTransition", FirelensRemoved, "err", 1)
  /\ knownStatusUnsafe = FirelensCreated
  /\ appliedStatusUnsafe = FirelensRemoved

\* C3: SetAppliedStatus(s) with no applied status in flight sets the applied
\* status to s and returns true; with one in flight it returns false and
\* the applied, the known and the desired status are unchanged.
C3_SetAppliedStatusGate ==
  [][lastOp'.op = "SetAppliedStatus" =>
       IF appliedStatusUnsafe = FirelensStatusNone
         THEN /\ appliedStatusUnsafe' = lastOp'.arg
              /\ lastOp'.ret = "true"
              /\ UNCHANGED <<knownStatusUnsafe, desiredStatusUnsafe>>
         ELSE /\ lastOp'.ret = "false"
              /\ UNCHANGED statusVars]_vars

\* SetAppliedStatus(Removed) was rejected while Created is in flight.
C3_Witness ==
  /\ lastOp = Op("SetAppliedStatus", FirelensRemoved, "false", NoThread)
  /\ appliedStatusUnsafe = FirelensCreated

\* C4: after SetKnownStatus(s) the known status is s, an applied status that
\* was in flight and <= s is None, and any other applied status (None, or
\* one greater than s) is as before.
C4_SetKnownStatusReconciles ==
  [][lastOp'.op = "SetKnownStatus" =>
       /\ knownStatusUnsafe' = lastOp'.arg
       /\ appliedStatusUnsafe' =
            IF appliedStatusUnsafe # FirelensStatusNone
               /\ appliedStatusUnsafe <= lastOp'.arg
              THEN FirelensStatusNone
              ELSE appliedStatusUnsafe]_vars

\* SetKnownStatus(Created) has run and the applied status Removed, which is
\* greater, is still in flight.
C4_Witness ==
  /\ lastOp = Op("SetKnownStatus", FirelensCreated, "none", NoThread)
  /\ knownStatusUnsafe = FirelensCreated
  /\ appliedStatusUnsafe = FirelensRemoved

\* C5, as claimed: no step moves the known status to a lower status.
C5_KnownStatusNeverDecreases ==
  [][knownStatusUnsafe' >= knownStatusUnsafe]_vars

\* C5, amended: the known status changes only in SetKnownStatus(s), which
\* sets it to s, lower or not; every other operation leaves it as it is.
C5_KnownStatusSetOnlyBySetter ==
  [][knownStatusUnsafe' # knownStatusUnsafe =>
       lastOp' = Op("SetKnownStatus", knownStatusUnsafe', "none", NoThread)]_vars

\* An ApplyTransition(Created) has returned nil and the known status, set
\* to Removed before, is what the setter made it.
C5_Witness ==
  /\ lastOp.op = "ApplyTransition"
  /\ lastOp.arg = FirelensCreated
  /\ lastOp.ret = "ok"
  /\ knownStatusUnsafe = FirelensRemoved

\* C6: at most one goroutine is inside Create at any time, however the
\* ApplyTransition calls interleave.
C6_OneCreateInFlight ==
  Cardinality({t \in Threads : pc[t] \in CreateStages}) <= 1

\* One goroutine is writing fluent.conf inside Create while the other has
\* called ApplyTransition(Created) and waits for the lock.
C6_Witness ==
  \E t, u \in Threads :
    /\ pc[t] = "write"
    /\ pc[u] = "lock"
    /\ nextState[t] = FirelensCreated
    /\ nextState[u] = FirelensCreated

\* C7: at every moment each destination path is absent or holds a complete
\* file, written by the writer of that path: what a reader finds there is
\* never partial content.
C7_DestinationNeverPartial ==
  /\ fluentConf # Absent => fluentConf = Content(FullLen, firelensConfigType)
  /\ externalConf # Absent => externalConf = Content(FullLen, "s3object")

\* fluent.conf is being rewritten: the temp file holds part of the new
\* content while the destination holds the complete previous file.
C7_Witness ==
  \E t \in Threads :
    /\ pc[t] = "write"
    /\ destPath[t] = "fluent"
    /\ tempLinked[t]
    /\ tempLen[t] > 0
    /\ tempLen[t] < FullLen
    /\ fluentConf # Absent

\* C8: a step of writeConfigFile that fails returns the error (Create
\* returns it, wrapped) and no step of writeConfigFile other than the
\* successful rename changes a destination path.
C8_FailedWriteLeavesDestination ==
  [][\A t \in Threads :
       (Mover(t) /\ pc[t] \in WriteStages) =>
         /\ lastOp'.ret = "err" =>
              /\ pc'[t] = "idle"
              /\ UNCHANGED <<fluentConf, externalConf>>
         /\ pc[t] # "rename" => UNCHANGED <<fluentConf, externalConf>>]_vars

\* A write failed after its temp file was created, and fluent.conf, written
\* by an earlier call, is still there.
C8_Witness ==
  /\ lastOp.op = "ApplyTransition"
  /\ lastOp.ret = "err"
  /\ terminalReason = ReasonGenerate
  /\ orphans > 0
  /\ fluentConf = Content(FullLen, firelensConfigType)

\* C9, as claimed: no temp file of a writeConfigFile call that has returned
\* is left in the resource directory.
C9_NoTempFileLeft == orphans = 0

\* C10: the DEL calls of cleanupNS go through the entries from the last
\* backwards, every call before the latest one succeeded, and cleanupNS has
\* returned nil exactly when all entries were deleted, the error of the
\* failed DEL otherwise.
C10_ReverseOrderStopAtFailure ==
  LET n == Len(networkConfigs)
      m == Len(delCalls)
  IN /\ m <= n
     /\ \A k \in 1..m :
          /\ delCalls[k].idx = n + 1 - k
          /\ delCalls[k].net = networkConfigs[n + 1 - k]
          /\ k < m => delCalls[k].ok
     /\ cniPc = "loop" => \A k \in 1..m : delCalls[k].ok
     /\ cniPc = "done" =>
          /\ cniErr = "nil" <=> (m = n /\ \A k \in 1..m : delCalls[k].ok)
          /\ cniErr # "nil" <=> (m > 0 /\ ~delCalls[m].ok)

\* Of three networks the DEL of the third succeeded and that of the second
\* failed: cleanupNS has returned the error and the first got no DEL.
C10_Witness ==
  /\ cniPc = "done"
  /\ Len(networkConfigs) = 3
  /\ Len(delCalls) = 2
  /\ delCalls[1].ok
  /\ ~delCalls[2].ok
  /\ cniErr = "delete network failed"

C12_CredentialsFailureKeepsDirectories ==
  [][\A t \in Threads :
       (Mover(t) /\ externalConfigType = ExternalConfigTypeS3) =>
         /\ (pc[t] = "s3_creds" /\ lastOp'.ret = "err") =>
              /\ pc'[t] = "idle"
              /\ terminalReason' # ""
              /\ {"resource", "config", "socket"} \subseteq dirs'
              /\ UNCHANGED <<fluentConf, externalConf, orphans, tempVars>>
         /\ pc[t] \in {"lookup", "validate", "mkdir_config", "mkdir_socket", "s3_creds"} =>
              /\ UNCHANGED <<fluentConf, externalConf, orphans, tempVars>>
              /\ pc'[t] \notin {"generate"} \cup WriteStages
         /\ pc'[t] = "generate" => (pc[t] = "rename" /\ destPath[t] = "external")]_vars

\* ApplyTransition(Created) on an s3 resource with a well-formed ARN has
\* returned an error of the download before any temp file was created:
\* both directories are there, neither config file is.
C12_Witness ==
  /\ externalConfigType = ExternalConfigTypeS3
  /\ externalConfigValue = "arn:ok"
  /\ lastOp.op = "ApplyTransition"
  /\ lastOp.arg = FirelensCreated
  /\ lastOp.ret = "err"
  /\ terminalReason = ReasonDownload
  /\ {"config", "socket"} \subseteq dirs
  /\ fluentConf = Absent
  /\ externalConf = Absent
  /\ orphans = 0

\* C13: on a resource whose configuration type is neither fluentd nor
\* fluentbit, Create returns an error from its first check with the
\* terminal reason set (to the invalid-type message unless an earlier
\* failure set it), no goroutine gets past that check to the directories,
\* the credentials lookup, the download or the config write, and no step
\* touches the resource directory.
C13_InvalidTypeFailsFast ==
  [][(firelensConfigType # FirelensConfigTypeFluentd
        /\ firelensConfigType # FirelensConfigTypeFluentbit) =>
       /\ UNCHANGED <<fsVars, tempVars>>
       /\ \A t \in Threads :
            /\ pc'[t] \notin CreateStages \ {"validate"}
            /\ (Mover(t) /\ pc[t] = "validate") =>
                 /\ lastOp'.ret = "err"
                 /\ pc'[t] = "idle"
                 /\ terminalReason' # ""
                 /\ terminalReason = "" => terminalReason' = ReasonConfigType]_vars

\* ApplyTransition(Created) has failed on the type check of a resource of
\* an unknown type: nothing is on disk.
C13_Witness ==
  /\ firelensConfigType = "unknown"
  /\ lastOp.op = "ApplyTransition"
  /\ lastOp.arg = FirelensCreated
  /\ lastOp.ret = "err"
  /\ terminalReason = ReasonConfigType
  /\ dirs = {}
  /\ fluentConf = Absent

\* C14: NewFirelensResource fails, returning no resource and creating no
\* directory, exactly when config-file-type is present with a value other
\* than "s3" and "file" or is present without config-file-value; otherwise
\* it returns a resource that carries the type and value given, or none
\* when the type is absent.
C14_ExternalOptionsValidated ==
  constructed # "pending" =>
    /\ dirs = {}
    /\ constructed = "err" <=>
         /\ ExternalConfigTypeOption \in DOMAIN options
         /\ \/ options[ExternalConfigTypeOption] \notin
                  {ExternalConfigTypeS3, ExternalConfigTypeFile}
            \/ externalConfigValueOption \notin DOMAIN options
    /\ constructed = "err" =>
         /\ statusToTransitions = {}
         /\ lastOp = Op("NewFirelensResource", 0, "err", NoThread)
    /\ constructed = "ok" =>
         /\ statusToTransitions = {FirelensCreated}
         /\ IF ExternalConfigTypeOption \in DOMAIN options
              THEN /\ externalConfigType = options[ExternalConfigTypeOption]
                   /\ externalConfigValue = options[externalConfigValueOption]
              ELSE /\ externalConfigType = ""
                   /\ externalConfigValue = ""

\* NewFirelensResource has refused a valid type that came without a value.
C14_Witness ==
  /\ constructed = "err"
  /\ ExternalConfigTypeOption \in DOMAIN options
  /\ options[ExternalConfigTypeOption] = ExternalConfigTypeS3
  /\ externalConfigValueOption \notin DOMAIN options

\* C15: the metadata flag of a constructed resource is true when the
\* option enable-ecs-log-metadata is absent, true when it is present with
\* a value that does not parse as a boolean, and the parsed value otherwise.
C15_MetadataDefaultsTrue ==
  constructed = "ok" =>
    ecsMetadataEnabled =
      IF ecsLogMetadataEnableOption \notin DOMAIN options
        THEN TRUE
        ELSE IF ParseBool(options[ecsLogMetadataEnableOption]).err
               THEN TRUE
               ELSE ParseBool(options[ecsLogMetadataEnableOption]).b

\* C16: whatever the known status is, NextKnownState returns it plus one
\* and leaves it as it is: Created from None, Removed from Created.
C16_NextKnownStateIsSuccessor ==
  [][lastOp'.op = "NextKnownState" =>
       /\ lastOp'.ret = knownStatusUnsafe + 1
       /\ knownStatusUnsafe = FirelensStatusNone => lastOp'.ret = FirelensCreated
       /\ knownStatusUnsafe = FirelensCreated => lastOp'.ret = FirelensRemoved
       /\ UNCHANGED <<statusVars, createdAtUnsafe, reasonVars>>]_vars

\* NextKnownState has answered Removed for a resource known as Created.
C16_Witness ==
  /\ lastOp.op = "NextKnownState"
  /\ lastOp.ret = FirelensRemoved
  /\ knownStatusUnsafe = FirelensCreated

\* C17: the transition table holds Created and nothing else, at
\* construction and after every Initialize; the lookup of ApplyTransition
\* enters Create exactly when the target is Created, Create is entered
\* from nowhere else, and for None and Removed the call returns an error
\* without touching the resource directory.
C17_TableDispatchesOnlyCreated ==
  [][/\ statusToTransitions' = {FirelensCreated}
     /\ \A t \in Threads :
          /\ (Mover(t) /\ pc[t] = "lookup") =>
               /\ pc'[t] = "validate" <=> nextState[t] = FirelensCreated
               /\ nextState[t] # FirelensCreated =>
                    /\ lastOp'.ret = "err"
                    /\ pc'[t] = "idle"
                    /\ UNCHANGED <<fsVars, tempVars>>
          /\ (pc'[t] = "validate" /\ pc[t] # "validate") => pc[t] = "lookup"
          /\ pc'[t] \in CreateStages => nextState'[t] = FirelensCreated]_vars

\* ApplyTransition(None) has failed on the lookup while a call for Created
\* waits for the lock: nothing is on disk.
C17_Witness ==
  /\ lastOp = Op("ApplyTransition", FirelensStatusNone, "err", 2)
  /\ terminalReason = ReasonTransition
  /\ pc[1] = "lock"
  /\ nextState[1] = FirelensCreated
  /\ dirs = {}

\* C18 as claimed: a goroutine is inside Create only while the known
\* status is None.
C18_CreateOnlyFromNone ==
  \A t \in Threads : pc[t] \in CreateStages => knownStatusUnsafe = FirelensStatusNone

\* C18: ApplyTransition(Created) enters Create whenever the table binds
\* Created, whatever the known status is (None, Created or Removed), and no
\* step of ApplyTransition or Create changes the known, the applied or the
\* desired status: running Create once is left to the caller.
C18_DispatchIgnoresKnownStatus ==
  [][\A t \in Threads :
       Mover(t) =>
         /\ UNCHANGED statusVars
         /\ (pc[t] = "lookup" /\ nextState[t] = FirelensCreated
               /\ FirelensCreated \in statusToTransitions) =>
              /\ pc'[t] = "validate"
              /\ knownStatusUnsafe \in Status]_vars

\* A goroutine is inside Create again on a resource whose known status is
\* Created and whose fluent.conf an earlier Create wrote.
C18_Witness ==
  /\ pc[1] = "validate"
  /\ knownStatusUnsafe = FirelensCreated
  /\ fluentConf = Content(FullLen, FirelensConfigTypeFluentbit)

\* C19: a step on which ApplyTransition (and Create inside it) returns an
\* error leaves a non-empty terminal reason, a non-empty reason stays
\* non-empty, GetTerminalReason returns the reason, and the reason leaves
\* the empty string on no other step than such a failing return.
C19_ReasonSetIffFailed ==
  [][/\ (lastOp'.op = "ApplyTransition" /\ lastOp'.ret = "err") => terminalReason' # ""
     /\ terminalReason # "" => terminalReason' # ""
     /\ lastOp'.op = "GetTerminalReason" => lastOp'.ret = terminalReason'
     /\ (terminalReason = "" /\ terminalReason' # "") =>
          /\ lastOp'.op = "ApplyTransition"
          /\ lastOp'.ret = "err"]_vars

\* GetTerminalReason has returned the reason of a failed config generation.
C19_Witness ==
  /\ lastOp.op = "GetTerminalReason"
  /\ lastOp.ret = ReasonGenerate
  /\ terminalReasonOnce

\* C20 as claimed: while a goroutine is inside Create no accessor of the
\* statuses, of createdAt or of the terminal reason can complete, a
\* SetCreatedAt of the zero time included.
C20_NoAccessorCompletes ==
  \A t \in Threads :
    pc[t] \in CreateStages =>
      ~ENABLED (LockedAccessor \/ SetCreatedAt(0))

\* C20: a goroutine inside Create holds the lock of its resource, and while
\* it does no getter or setter of the statuses, of createdAt or of the
\* terminal reason can complete on that resource, except SetCreatedAt with
\* the zero time, which returns before it takes the lock and writes
\* nothing; each accessor can complete once the lock is free; the
\* accessors of a second resource depend on that resource's lock alone.
C20_LockBlocksOwnAccessorsOnly ==
  /\ \A t \in Threads :
       pc[t] \in CreateStages =>
         /\ lock = t
         /\ ~ENABLED LockedAccessor
         /\ ENABLED SetCreatedAt(0)
  /\ lock = NoThread =>
       /\ \A s \in Status :
            /\ ENABLED SetDesiredStatus(s)
            /\ ENABLED SetKnownStatus(s)
            /\ ENABLED SetAppliedStatus(s)
       /\ \A c \in 1..MaxTime : ENABLED SetCreatedAt(c)
       /\ ENABLED GetDesiredStatus
       /\ ENABLED GetKnownStatus
       /\ ENABLED GetAppliedStatus
       /\ ENABLED GetCreatedAt
       /\ ENABLED GetTerminalReason
  /\ peer.lock = NoThread =>
       /\ \A s \in Status : ENABLED PeerSetKnownStatus(s)
       /\ ENABLED PeerGetKnownStatus
       /\ ENABLED PeerApplyTransition
  /\ peer.lock # NoThread =>
       /\ \A s \in Status : ~ENABLED PeerSetKnownStatus(s)
       /\ ~ENABLED PeerGetKnownStatus

\* While a goroutine is in the middle of a config write inside Create, an
\* accessor of the second resource has just completed.
C20_Witness ==
  /\ pc[1] = "write"
  /\ lock = 1
  /\ lastOp = Op("peer.SetKnownStatus", FirelensCreated, "none", NoThread)
  /\ peer.knownStatusUnsafe = FirelensCreated

\* C21: a Cleanup that returns success leaves nothing of the resource
\* directory tree; it returns an error only when the removal of an existing
\* tree failed, the directory then remaining; on an absent directory it
\* succeeds and changes nothing, so a Cleanup right after a successful one
\* succeeds too; no field of the resource changes.
C21_CleanupRemovesTreeIdempotent ==
  [][lastOp'.op = "Cleanup" =>
       /\ lastOp'.ret \in {"ok", "err"}
       /\ lastOp'.ret = "ok" =>
            /\ dirs' = {}
            /\ fluentConf' = Absent
            /\ externalConf' = Absent
            /\ orphans' = 0
            /\ \A t \in Threads : ~tempLinked'[t]
       /\ lastOp'.ret = "err" => ("resource" \in dirs /\ "resource" \in dirs')
       /\ "resource" \notin dirs => (lastOp'.ret = "ok" /\ UNCHANGED fsVars)
       /\ (lastOp.op = "Cleanup" /\ lastOp.ret = "ok") => lastOp'.ret = "ok"
       /\ UNCHANGED <<resVars, thVars>>]_vars

\* Cleanup has succeeded on a resource whose Create had made the
\* directories and failed generating the config: nothing is left on disk.
C21_Witness ==
  /\ lastOp = Op("Cleanup", 0, "ok", NoThread)
  /\ terminalReason = ReasonGenerate
  /\ \A t \in Threads : pc[t] = "idle"
  /\ dirs = {}
  /\ fluentConf = Absent
  /\ orphans = 0

\* C22: SetCreatedAt with the zero time leaves createdAt unchanged, the
\* first SetCreatedAt with a non-zero time stores it, and every later
\* SetCreatedAt leaves the stored time unchanged; no other step assigns it.
C22_CreatedAtSetOnce ==
  [][/\ lastOp'.op = "SetCreatedAt" =>
          createdAtUnsafe' = IF createdAtUnsafe # 0 THEN createdAtUnsafe
                                                   ELSE lastOp'.arg
     /\ lastOp'.op # "SetCreatedAt" => createdAtUnsafe' = createdAtUnsafe]_vars

\* C23: when ApplyTransition(Created) returns success, fluent.conf holds
\* the complete config of the resource's type, and external.conf holds the
\* complete S3 object if the external config type is s3 and does not exist
\* otherwise; on a resource without external config or with one of type
\* file no goroutine enters the credentials lookup, the ARN parsing, the
\* client construction or a write of external.conf.
C23_SuccessfulCreateWrites ==
  [][\A t \in Threads :
       /\ (Mover(t) /\ lastOp'.ret = "ok") =>
            /\ pc[t] = "rename"
            /\ fluentConf' = Content(FullLen, firelensConfigType)
            /\ externalConf' = IF externalConfigType = ExternalConfigTypeS3
                                 THEN Content(FullLen, "s3object")
                                 ELSE Absent
       /\ externalConfigType # ExternalConfigTypeS3 =>
            /\ pc'[t] \notin {"s3_creds", "s3_parse", "s3_client"}
            /\ destPath'[t] # "external"
            /\ externalConf' = Absent]_vars

\* ApplyTransition(Created) has succeeded on a resource with an external
\* config of type file: fluent.conf is there, external.conf is not.
C23_Witness ==
  /\ externalConfigType = ExternalConfigTypeFile
  /\ lastOp.op = "ApplyTransition"
  /\ lastOp.arg = FirelensCreated
  /\ lastOp.ret = "ok"
  /\ fluentConf = Content(FullLen, FirelensConfigTypeFluentbit)
  /\ externalConf = Absent

\* C24 as claimed: of two SetAppliedStatus calls in a row the first of
\* which found no applied status and returned true, the second returns
\* false, whatever the arguments.
C24_ExactlyOneWins ==
  [][(lastOp.op = "SetAppliedStatus" /\ lastOp.ret = "true"
        /\ lastOp'.op = "SetAppliedStatus") => lastOp'.ret = "false"]_vars

\* C24: SetAppliedStatus calls are serialized by the lock; a call returns
\* true exactly when the applied status is None and then stores its
\* argument, otherwise it returns false and stores nothing; no step other
\* than SetAppliedStatus and SetKnownStatus changes the applied status. So
\* after a call with an argument other than None has returned true, a call
\* that follows it returns false and the applied status stays the winner's
\* argument; a winner whose argument is None leaves the gate open.
C24_OneWinnerUnlessNone ==
  [][/\ lastOp'.op = "SetAppliedStatus" =>
          /\ lastOp'.ret = "true" <=> appliedStatusUnsafe = FirelensStatusNone
          /\ lastOp'.ret = "true" => appliedStatusUnsafe' = lastOp'.arg
          /\ lastOp'.ret = "false" => appliedStatusUnsafe' = appliedStatusUnsafe
          /\ (lastOp.op = "SetAppliedStatus" /\ lastOp.ret = "true"
                /\ lastOp.arg # FirelensStatusNone) =>
               /\ lastOp'.ret = "false"
               /\ appliedStatusUnsafe' = lastOp.arg
     /\ lastOp'.op \notin {"SetAppliedStatus", "SetKnownStatus"} =>
          appliedStatusUnsafe' = appliedStatusUnsafe]_vars

\* SetAppliedStatus(Removed) has been refused right after the call that
\* stored Created: the applied status is the winner's argument.
C24_Witness ==
  /\ lastOp = Op("SetAppliedStatus", FirelensRemoved, "false", NoThread)
  /\ appliedStatusUnsafe = FirelensCreated
  /\ knownStatusUnsafe = FirelensStatusNone
  /\ \E t \in Threads : pc[t] = "lock"

\* C25: downloadConfigFromS3 is entered after createDirectories only, and
\* its stages follow one another: the ARN is parsed only after the
\* credentials lookup succeeded, the client is constructed only after the
\* parse, the write of external.conf starts only after the client. A stage
\* is not retried: it hands over to the next or the call returns the
\* error with the terminal reason set; a malformed ARN always fails. The
\* first three stages create no temp file and touch nothing on disk, and
\* external.conf changes only on the rename of its write.
C25_FetchStagesInOrder ==
  [][\A t \in Threads :
       Mover(t) =>
         /\ (pc'[t] = "s3_creds" /\ pc[t] # "s3_creds") => pc[t] = "mkdir_socket"
         /\ (pc'[t] = "s3_parse" /\ pc[t] # "s3_parse") => pc[t] = "s3_creds"
         /\ (pc'[t] = "s3_client" /\ pc[t] # "s3_client") => pc[t] = "s3_parse"
         /\ (pc'[t] = "temp" /\ pc[t] # "temp" /\ destPath'[t] = "external") =>
              pc[t] = "s3_client"
         /\ pc[t] \in {"s3_creds", "s3_parse", "s3_client"} =>
              /\ UNCHANGED <<fsVars, tempVars>>
              /\ \/ pc'[t] = (CASE pc[t] = "s3_creds" -> "s3_parse"
                                 [] pc[t] = "s3_parse" -> "s3_client"
                                 [] pc[t] = "s3_client" -> "temp")
                 \/ /\ pc'[t] = "idle"
                    /\ lastOp'.ret = "err"
                    /\ terminalReason' # ""
         /\ (pc[t] = "s3_parse" /\ externalConfigValue # "arn:ok") => pc'[t] = "idle"
         /\ (pc[t] \in WriteStages /\ destPath[t] = "external" /\ lastOp'.ret = "err") =>
              /\ pc'[t] = "idle"
              /\ externalConf' = externalConf
         /\ externalConf' \notin {externalConf, Absent} =>
              (pc[t] = "rename" /\ destPath[t] = "external")]_vars

\* The fetch of an s3 resource with a malformed ARN has failed: the call
\* returned the download error, no temp file was created and external.conf
\* is not there.
C25_Witness ==
  /\ externalConfigType = ExternalConfigTypeS3
  /\ externalConfigValue = "arn:malformed"
  /\ lastOp.op = "ApplyTransition"
  /\ lastOp.ret = "err"
  /\ terminalReason = ReasonDownload
  /\ "config" \in dirs
  /\ externalConf = Absent
  /\ orphans = 0
  /\ \A t \in Threads : ~tempLinked[t]

\* C26: no step of ApplyTransition, up to and including its successful or
\* failing return, changes the desired, the known or the applied status;
\* the known status changes on SetKnownStatus only; an applied status in
\* flight changes only on a SetKnownStatus with a status at or above it,
\* and while it is in flight SetAppliedStatus returns false.
C26_ApplyTransitionKeepsStatuses ==
  [][/\ \A t \in Threads : Mover(t) => UNCHANGED statusVars
     /\ knownStatusUnsafe' # knownStatusUnsafe => lastOp'.op = "SetKnownStatus"
     /\ (appliedStatusUnsafe # FirelensStatusNone
           /\ appliedStatusUnsafe' # appliedStatusUnsafe) =>
          /\ lastOp'.op = "SetKnownStatus"
          /\ lastOp'.arg >= appliedStatusUnsafe
          /\ appliedStatusUnsafe' = FirelensStatusNone
     /\ (appliedStatusUnsafe # FirelensStatusNone
           /\ lastOp'.op = "SetAppliedStatus") => lastOp'.ret = "false"]_vars

\* ApplyTransition(Created) has failed while the applied status Created was
\* in flight: it still is, and the known status is still None.
C26_Witness ==
  /\ lastOp.op = "ApplyTransition"
  /\ lastOp.arg = FirelensCreated
  /\ lastOp.ret = "err"
  /\ appliedStatusUnsafe = FirelensCreated
  /\ knownStatusUnsafe = FirelensStatusNone

\* C27: Initialize, whatever task statuses it is given, rebuilds the
\* transition table with Created in it and changes none of the desired,
\* known and applied status, createdAt, the terminal reason, the lock and
\* the resource directory; with the table so rebuilt the lookup of
\* ApplyTransition(Created) enters Create.
C27_InitializeKeepsState ==
  [][/\ lastOp'.op = "Initialize" =>
          /\ statusToTransitions' = {FirelensCreated}
          /\ UNCHANGED <<statusVars, createdAtUnsafe, reasonVars, cfgVars, lock,
                         fsVars, thVars, tempVars>>
     /\ \A t \in Threads :
          (Mover(t) /\ pc[t] = "lookup" /\ nextState[t] = FirelensCreated
             /\ statusToTransitions = initStatusToTransition) =>
            (pc'[t] = "validate" /\ lastOp'.ret = "running")]_vars

\* Initialize has run on a resource with a known status, a creation time
\* and the terminal reason of a failed Create, a transition to Created
\* waiting for the lock.
C27_Witness ==
  /\ lastOp.op = "Initialize"
  /\ lastOp.arg = 2
  /\ lastOp.desired = 1
  /\ knownStatusUnsafe = FirelensCreated
  /\ desiredStatusUnsafe = FirelensRemoved
  /\ createdAtUnsafe = 1
  /\ terminalReason = ReasonConfigType
  /\ pc[1] = "lock"
  /\ nextState[1] = FirelensCreated

\* C28: every step that writes the terminal reason is taken by a goroutine
\* that holds the write lock of the resource, whether it reached the
\* failing Create through ApplyTransition or called Create directly; so no
\* GetTerminalReason, which needs the lock free, runs during a write.
C28_ReasonWrittenUnderLock ==
  [][terminalReason' # terminalReason =>
       /\ lock # NoThread
       /\ lock = lastOp'.th]_vars
====
